---- MODULE Spec2Model ----
(***************************************************************************)
(* A model of reconciliation.py, the "ACH Invoice Processor".              *)
(*                                                                         *)
(* Text is a sequence of one-character strings.  An optional value is a    *)
(* sequence of length at most one: None is <<>>, Some(x) is <<x>>.         *)
(* Money is an integer number of thousandths (mils): 500.004 is 500004.    *)
(* A calendar date is a triple <<year, month, day>>.                       *)
(***************************************************************************)
EXTENDS Integers, Sequences, FiniteSets, TLC

VARIABLES ach_amount, ach_description, ach_date, uploaded_file, result

vars == <<ach_amount, ach_description, ach_date, uploaded_file, result>>

None == <<>>
Some(x) == <<x>>
IsNone(o) == o = <<>>

(***************************************************************************)
(* Characters and the text helpers of Python the handler relies on.        *)
(***************************************************************************)
DigitChars == <<"0", "1", "2", "3", "4", "5", "6", "7", "8", "9">>

IsDigit(c) == \E i \in 1..10 : DigitChars[i] = c

DigitVal(c) == (CHOOSE i \in 1..10 : DigitChars[i] = c) - 1

\* str.strip() and str.split() treat these as white space.
IsSpace(c) == c \in {" ", "\t", "\n"}

\* str.strip(): white space removed at both ends.
RECURSIVE LStrip(_)
LStrip(s) == IF s # <<>> /\ IsSpace(Head(s)) THEN LStrip(Tail(s)) ELSE s

RECURSIVE RStrip(_)
RStrip(s) ==
    IF s # <<>> /\ IsSpace(s[Len(s)]) THEN RStrip(SubSeq(s, 1, Len(s) - 1)) ELSE s

Strip(s) == RStrip(LStrip(s))

\* The length of the longest prefix of s free of white space.
RECURSIVE TokenLen(_)
TokenLen(s) == IF s = <<>> \/ IsSpace(Head(s)) THEN 0 ELSE 1 + TokenLen(Tail(s))

\* str.split() without arguments: the maximal runs of non-space characters.
RECURSIVE Split(_)
Split(s) ==
    LET t == LStrip(s)
        n == TokenLen(t)
    IN  IF t = <<>> THEN <<>>
        ELSE <<SubSeq(t, 1, n)>> \o Split(SubSeq(t, n + 1, Len(t)))

\* " ".join(tokens)
RECURSIVE Join(_)
Join(tokens) ==
    IF tokens = <<>> THEN <<>>
    ELSE IF Len(tokens) = 1 THEN tokens[1]
    ELSE tokens[1] \o <<" ">> \o Join(Tail(tokens))

\* str(description) of a cell: the text itself, "nan" for an empty cell.
Str(description) ==
    IF IsNone(description) THEN <<"n", "a", "n">> ELSE description[1]

(***************************************************************************)
(* The regular expression of parse_line_item, matched at the start of s:   *)
(*   (.+?) \((S\d+)\)\[C\]:(\d{4}-\d{2}-\d{2}):(\d{4}-\d{2}-\d{2})         *)
(***************************************************************************)
\* \d{4}-\d{2}-\d{2} at position i of s.
IsDateShape(s, i) ==
    /\ i + 9 <= Len(s)
    /\ \A j \in {0, 1, 2, 3, 5, 6, 8, 9} : IsDigit(s[i + j])
    /\ s[i + 4] = "-"
    /\ s[i + 7] = "-"

\* The last position of the run of digits that starts at i (i - 1: no digit).
RECURSIVE DigitRunEnd(_, _)
DigitRunEnd(s, i) ==
    IF i <= Len(s) /\ IsDigit(s[i]) THEN DigitRunEnd(s, i + 1) ELSE i - 1

\* The pattern after group 1, " \((S\d+)\)\[C\]:<date>:<date>", at position p.
MatchTail(s, p) ==
    LET e == DigitRunEnd(s, p + 3)
    IN  /\ p + 2 <= Len(s)
        /\ s[p] = " " /\ s[p + 1] = "(" /\ s[p + 2] = "S"
        /\ e >= p + 3
        /\ e + 5 <= Len(s)
        /\ s[e + 1] = ")" /\ s[e + 2] = "[" /\ s[e + 3] = "C"
        /\ s[e + 4] = "]" /\ s[e + 5] = ":"
        /\ IsDateShape(s, e + 6)
        /\ e + 16 <= Len(s) /\ s[e + 16] = ":"
        /\ IsDateShape(s, e + 17)

\* re.match: group 1 is lazy, so the shortest prefix (of at least one
\* character, none of them a line break: "." does not match "\n") after which
\* the rest of the pattern matches.  None when there is no match.
ReMatch(s) ==
    LET ks == {k \in 1..Len(s) :
                 /\ \A i \in 1..k : s[i] # "\n"
                 /\ MatchTail(s, k + 1)}
    IN  IF ks = {} THEN None
        ELSE LET k == CHOOSE x \in ks : \A y \in ks : x <= y
                 e == DigitRunEnd(s, k + 4)
             IN  Some([g1 |-> SubSeq(s, 1, k),
                       g2 |-> SubSeq(s, k + 3, e),
                       g3 |-> SubSeq(s, e + 6, e + 15),
                       g4 |-> SubSeq(s, e + 17, e + 26)])

\* A slip in line 31: group 3, the first date, taken as the week ending.
parse_line_item_date1(description) ==
    LET m == ReMatch(Str(description))
    IN  IF IsNone(m)
        THEN [exc |-> "none", first |-> None, last |-> None,
              id |-> None, week |-> None]
        ELSE LET full_name == Split(Strip(m[1].g1))
             IN  IF full_name = <<>>
                 THEN [exc |-> "IndexError", first |-> None, last |-> None,
                       id |-> None, week |-> None]
                 ELSE [exc |-> "none",
                       first |-> Some(full_name[1]),
                       last |-> Some(IF Len(full_name) > 1
                                     THEN Join(Tail(full_name)) ELSE <<>>),
                       id |-> Some(m[1].g2),
                       week |-> Some(m[1].g3)]

\* parse_line_item: the four fields (each optional), or the exception raised.
\* full_name[0] raises IndexError when the name has no token.
parse_line_item(description) ==
    LET m == ReMatch(Str(description))
    IN  IF IsNone(m)
        THEN [exc |-> "none", first |-> None, last |-> None,
              id |-> None, week |-> None]
        ELSE LET full_name == Split(Strip(m[1].g1))
             IN  IF full_name = <<>>
                 THEN [exc |-> "IndexError", first |-> None, last |-> None,
                       id |-> None, week |-> None]
                 ELSE [exc |-> "none",
                       first |-> Some(full_name[1]),
                       last |-> Some(IF Len(full_name) > 1
                                     THEN Join(Tail(full_name)) ELSE <<>>),
                       id |-> Some(m[1].g2),
                       week |-> Some(m[1].g4)]

(***************************************************************************)
(* Calendar dates: pd.to_datetime(..., errors='coerce'), timedelta,        *)
(* strftime('%Y-%m-%d') and strptime(..., '%Y-%m-%d').                     *)
(***************************************************************************)
IsLeap(y) == (y % 4 = 0 /\ y % 100 # 0) \/ y % 400 = 0

DaysInMonth(y, m) ==
    IF m = 2 THEN (IF IsLeap(y) THEN 29 ELSE 28)
    ELSE IF m \in {4, 6, 9, 11} THEN 30 ELSE 31

IsValidDate(d) ==
    /\ d[1] >= 1
    /\ d[2] \in 1..12
    /\ d[3] >= 1 /\ d[3] <= DaysInMonth(d[1], d[2])

\* The number written by the digits of s, most significant first.
RECURSIVE DigitsToNat(_)
DigitsToNat(s) ==
    IF s = <<>> THEN 0
    ELSE 10 * DigitsToNat(SubSeq(s, 1, Len(s) - 1)) + DigitVal(s[Len(s)])

\* The year, month and day fields of a text of the shape YYYY-MM-DD.
DateFields(s) ==
    <<DigitsToNat(SubSeq(s, 1, 4)), DigitsToNat(SubSeq(s, 6, 7)),
      DigitsToNat(SubSeq(s, 9, 10))>>

\* pd.to_datetime(..., errors='coerce') of one optional YYYY-MM-DD text: the
\* date, or None (NaT) for a missing value and for a text that is no date.
to_datetime(value) ==
    IF IsNone(value) THEN None
    ELSE IF Len(value[1]) = 10 /\ IsDateShape(value[1], 1)
              /\ IsValidDate(DateFields(value[1]))
         THEN Some(DateFields(value[1]))
         ELSE None

\* A slip in the date arithmetic: every month taken to have 31 days.
NextDayThirtyOne(d) ==
    IF d[3] < 31 THEN <<d[1], d[2], d[3] + 1>>
    ELSE IF d[2] < 12 THEN <<d[1], d[2] + 1, 1>>
    ELSE <<d[1] + 1, 1, 1>>

\* The day after d.
NextDay(d) ==
    IF d[3] < DaysInMonth(d[1], d[2]) THEN <<d[1], d[2], d[3] + 1>>
    ELSE IF d[2] < 12 THEN <<d[1], d[2] + 1, 1>>
    ELSE <<d[1] + 1, 1, 1>>

\* date + timedelta(days=n)
RECURSIVE AddDays(_, _)
AddDays(d, n) == IF n = 0 THEN d ELSE AddDays(NextDay(d), n - 1)

\* The decimal digits of n, zero-padded on the left to w characters.
RECURSIVE Pad(_, _)
Pad(n, w) ==
    IF w = 0 THEN <<>> ELSE Pad(n \div 10, w - 1) \o <<DigitChars[(n % 10) + 1]>>

\* strftime('%Y-%m-%d')
strftime(d) == Pad(d[1], 4) \o <<"-">> \o Pad(d[2], 2) \o <<"-">> \o Pad(d[3], 2)

\* datetime.strptime(text, '%Y-%m-%d').date()
strptime(s) == DateFields(s)

\* Line 61: timedelta(days=2).
FmsOffsetDays == 2

\* Lines 61-62: FMS Week Ending of one row; NaT formats to a missing value.
FmsWeekEnding(week) ==
    LET t == to_datetime(week)
    IN  IF IsNone(t) THEN None ELSE Some(strftime(AddDays(t[1], FmsOffsetDays)))

(***************************************************************************)
(* Amounts.  float(text) is modelled on unsigned decimal literals with at  *)
(* most three fractional digits; every other text raises ValueError.       *)
(***************************************************************************)
\* The position of the first "." of s, Len(s) + 1 when there is none.
RECURSIVE DotPos(_)
DotPos(s) == IF s = <<>> \/ Head(s) = "." THEN 1 ELSE 1 + DotPos(Tail(s))

\* float(text): Some(value in mils), or None for ValueError.
Float(s) ==
    LET p == DotPos(s)
        ip == SubSeq(s, 1, p - 1)
        fp == SubSeq(s, p + 1, Len(s))
        f3 == SubSeq(fp \o <<"0", "0", "0">>, 1, 3)
    IN  IF /\ \A i \in 1..Len(ip) : IsDigit(ip[i])
           /\ \A i \in 1..Len(fp) : IsDigit(fp[i])
           /\ Len(ip) + Len(fp) >= 1
           /\ Len(fp) <= 3
        THEN Some(1000 * DigitsToNat(ip) + DigitsToNat(f3))
        ELSE None

\* round(x, 2), in cents.  A value exactly half way between two cents is
\* rounded to the even cent; the amounts drawn below never are half way.
Round2(m) ==
    LET q == m \div 10
        r == m % 10
    IN  IF r < 5 THEN q
        ELSE IF r > 5 THEN q + 1
        ELSE IF q % 2 = 0 THEN q ELSE q + 1

\* The number of decimal digits of n.
RECURSIVE NumDigits(_)
NumDigits(n) == IF n < 10 THEN 1 ELSE 1 + NumDigits(n \div 10)

\* len(str(x)) of the float x given in mils: "500.0", "499.99", "500.004".
FloatStrLen(m) ==
    NumDigits(m \div 1000) + 1
      + (IF m % 100 = 0 THEN 1 ELSE IF m % 10 = 0 THEN 2 ELSE 3)

(***************************************************************************)
(* The uploaded workbook as pd.read_excel sees it: the exception reading   *)
(* it raises ("none": it reads), its columns and its rows.  A row of the   *)
(* DataFrame keeps its index label.                                        *)
(***************************************************************************)
RequiredColumns ==
    {"Payment Date", "Line Item Description", "Extended Amount", "Quantity",
     "Unit Cost", "Invoice Amount", "Due Date", "CAI Invoice Number",
     "Supplier's Invoice Number"}

\* Lines 70-74: the columns of the file that the projection selects.
ProjectedColumns ==
    {"Quantity", "Unit Cost", "Extended Amount", "Invoice Amount", "Due Date",
     "CAI Invoice Number", "Supplier's Invoice Number"}

\* A slip in line 44: .dt.date left out, so that a payment date with a time
\* of day never equals the ACH date.
NormalizePaymentDateKeepTime(cell) ==
    IF IsNone(cell) \/ cell[1].time # 0 THEN None ELSE Some(cell[1].date)

\* Line 44: pd.to_datetime(..., errors='coerce').dt.date of a Payment Date
\* cell: the time of day is dropped, an unreadable cell becomes missing.
NormalizePaymentDate(cell) == IF IsNone(cell) THEN None ELSE Some(cell[1].date)

\* Lines 45-46: the rows whose Payment Date is the ACH date, which goes
\* through strftime and strptime before it is compared.
RECURSIVE MatchingRows(_, _, _)
MatchingRows(rows, i, date) ==
    IF i > Len(rows) THEN <<>>
    ELSE (IF NormalizePaymentDate(rows[i].payment_date)
               = Some(strptime(strftime(date)))
          THEN <<[index |-> i, row |-> rows[i]]>> ELSE <<>>)
         \o MatchingRows(rows, i + 1, date)

\* Line 52: Series.sum() skips missing values.
RECURSIVE SumExtended(_)
SumExtended(m) ==
    IF m = <<>> THEN 0
    ELSE (IF IsNone(m[1].row.extended) THEN 0 ELSE m[1].row.extended[1])
         + SumExtended(Tail(m))

\* Line 53: the amount check.
AmountsAgree(total, ach_amount_float) == Round2(total) = Round2(ach_amount_float)

(***************************************************************************)
(* Lines 57-79: a matching row with its parsed and derived columns.        *)
(***************************************************************************)
ReconciledRow(m) ==
    LET p == parse_line_item(m.row.description)
    IN  [index |-> m.index,
         first |-> p.first, last |-> p.last, id |-> p.id, week |-> p.week,
         fms |-> FmsWeekEnding(p.week),
         hours |-> m.row.quantity, bill_rate |-> m.row.unit_cost,
         extended |-> m.row.extended, invoice_amount |-> m.row.invoice_amount,
         due_date |-> m.row.due_date, cai |-> m.row.cai,
         esg |-> m.row.supplier]

\* The code point of a character of a YYYY-MM-DD text.
CharOrd(c) == IF c = "-" THEN 45 ELSE 48 + DigitVal(c)

\* a <= b for two texts, as Python compares str.
RECURSIVE TextLeq(_, _)
TextLeq(a, b) ==
    IF a = <<>> THEN TRUE
    ELSE IF b = <<>> THEN FALSE
    ELSE IF CharOrd(Head(a)) # CharOrd(Head(b))
         THEN CharOrd(Head(a)) < CharOrd(Head(b))
         ELSE TextLeq(Tail(a), Tail(b))

\* A slip in line 82: na_position='first'.
WeekLeqNaFirst(a, b) ==
    IF IsNone(a) THEN TRUE
    ELSE IF IsNone(b) THEN FALSE
    ELSE TextLeq(a[1], b[1])

\* Line 82: the order of sort_values(by="Vector Week Ending"): ascending,
\* missing values last (na_position='last').
WeekLeq(a, b) ==
    IF IsNone(b) THEN TRUE
    ELSE IF IsNone(a) THEN FALSE
    ELSE TextLeq(a[1], b[1])

\* Line 82: sort_values sorts with quicksort, which is not stable: every
\* arrangement of the rows that is in order is a possible result.
SortValues(rows) ==
    LET n == Len(rows)
        perms == {p \in [1..n -> 1..n] :
                    /\ \A i, j \in 1..n : i # j => p[i] # p[j]
                    /\ \A i \in 1..n : \A j \in 1..n :
                         i < j => WeekLeq(rows[p[i]].week, rows[p[j]].week)}
    IN  {[i \in 1..n |-> rows[p[i]]] : p \in perms}

(***************************************************************************)
(* Lines 89-117: the sheet.  A cell is <<"s", text>>, <<"f", mils>> (a     *)
(* float), <<"d", date>> (a timestamp), <<"nan">> or <<"none">> (empty).   *)
(***************************************************************************)
TextCell(o) == IF IsNone(o) THEN <<"none">> ELSE <<"s", o[1]>>

\* strftime of NaT gives NaN, a float.
TextOrNanCell(o) == IF IsNone(o) THEN <<"nan">> ELSE <<"s", o[1]>>

FloatCell(o) == IF IsNone(o) THEN <<"nan">> ELSE <<"f", o[1]>>

\* Line 96: row.tolist()
RowCells(r) ==
    <<TextCell(r.first), TextCell(r.last), TextCell(r.id), TextCell(r.week),
      TextOrNanCell(r.fms), FloatCell(r.hours), FloatCell(r.bill_rate),
      FloatCell(r.extended), FloatCell(r.invoice_amount), <<"d", r.due_date>>,
      <<"s", r.cai>>, <<"s", r.esg>>>>

\* Line 111: the column names after the rename and the drop of the summary.
Header ==
    <<<<"s", <<"F", "i", "r", "s", "t", " ", "N", "a", "m", "e">>>>,
       <<"s", <<"L", "a", "s", "t", " ", "N", "a", "m", "e">>>>,
       <<"s", <<"C", "a", "n", "d", "i", "d", "a", "t", "e", " ", "C", "A", "I", " ", "I", "D">>>>,
       <<"s", <<"V", "e", "c", "t", "o", "r", " ", "W", "e", "e", "k", " ", "E", "n", "d", "i", "n", "g">>>>,
       <<"s", <<"F", "M", "S", " ", "W", "e", "e", "k", " ", "E", "n", "d", "i", "n", "g">>>>,
       <<"s", <<"H", "o", "u", "r", "s">>>>,
       <<"s", <<"B", "i", "l", "l", " ", "R", "a", "t", "e">>>>,
       <<"s", <<"E", "x", "t", "e", "n", "d", "e", "d", " ", "A", "m", "o", "u", "n", "t">>>>,
       <<"s", <<"I", "n", "v", "o", "i", "c", "e", " ", "A", "m", "o", "u", "n", "t">>>>,
       <<"s", <<"D", "u", "e", " ", "D", "a", "t", "e">>>>,
       <<"s", <<"C", "A", "I", " ", "I", "n", "v", "o", "i", "c", "e", " ", "N", "u", "m", "b", "e", "r">>>>,
       <<"s", <<"E", "S", "G", " ", "I", "n", "v", "o", "i", "c", "e", " ", "N", "u", "m", "b", "e", "r">>>>>>

NumColumns == Len(Header)

\* Line 95: [""] * len(df_final.columns)
BlankRow == [c \in 1..NumColumns |-> <<"s", <<>>>>]

\* A slip in line 94: prev_week is not tested for truth.
NeedsBlankAnyChange(prev_week, current_week) == current_week # prev_week

\* Line 94: whether a blank row precedes a row; prev_week is tested for truth.
NeedsBlank(prev_week, current_week) ==
    /\ ~IsNone(prev_week) /\ prev_week[1] # <<>>
    /\ current_week # prev_week

\* Lines 90-97: the body rows, blank rows inserted between the weeks.
RECURSIVE FormattedRows(_, _)
FormattedRows(rows, prev_week) ==
    IF rows = <<>> THEN <<>>
    ELSE (IF NeedsBlank(prev_week, rows[1].week) THEN <<BlankRow>> ELSE <<>>)
         \o <<RowCells(rows[1])>>
         \o FormattedRows(Tail(rows), rows[1].week)

\* Lines 105-117: the rows of the sheet, top to bottom.
SheetRows(description, ach_amount_float, date, body) ==
    <<<<<<"s", <<"A", "C", "H", " ", "S", "u", "m", "m", "a", "r", "y">>>>>>,
      <<<<"s", <<"A", "C", "H", " ", "D", "e", "s", "c", "r", "i", "p", "t", "i", "o", "n">>>>, <<"s", description>>>>,
      <<<<"s", <<"A", "C", "H", " ", "A", "m", "o", "u", "n", "t">>>>, <<"f", ach_amount_float>>>>,
      <<<<"s", <<"A", "C", "H", " ", "D", "a", "t", "e">>>>, <<"s", strftime(date)>>>>,
      <<>>,
      Header>>
    \o body

\* Line 121: len(str(cell.value)) if cell.value else 0.  An empty text, the
\* float 0.0 and an empty cell are false; NaN is true and prints as "nan".
CellLen(cell) ==
    IF cell[1] = "s" THEN Len(cell[2])
    ELSE IF cell[1] = "f" THEN (IF cell[2] = 0 THEN 0 ELSE FloatStrLen(cell[2]))
    ELSE IF cell[1] = "d" THEN 19
    ELSE IF cell[1] = "nan" THEN 3
    ELSE 0

\* The cell of a sheet row in column c; a row may be shorter than the sheet.
CellAt(row, c) == IF c <= Len(row) THEN row[c] ELSE <<"none">>

Max(S) == CHOOSE x \in S : \A y \in S : y <= x

Min2(a, b) == IF a <= b THEN a ELSE b

\* Line 122: the widest a column is made.
MaxWidth == 40

\* Line 122: the padding added to the longest value.
Padding == 2

\* A slip in line 122: the cap applied before the padding is added.
ColumnWidthCapFirst(sheet, c) ==
    Min2(Max({CellLen(CellAt(sheet[r], c)) : r \in 1..Len(sheet)}), MaxWidth)
      + Padding

\* Lines 120-122: the width of column c of the sheet.
ColumnWidth(sheet, c) ==
    Min2(Max({CellLen(CellAt(sheet[r], c)) : r \in 1..Len(sheet)}) + Padding,
         MaxWidth)

(***************************************************************************)
(* Lines 36-135: the handler of the "Generate Excel Output" button.  Its   *)
(* outcome: the kind of message shown, the exception raised inside the try *)
(* block (class and message, "none" if none), the exception message shown, *)
(* the two amounts of the mismatch message, and on success the sorted      *)
(* rows, the summary, the body rows of the sheet and the column widths.    *)
(***************************************************************************)
Outcome(kind, exc, exc_msg, shown) ==
    [kind |-> kind, exc |-> exc, exc_msg |-> exc_msg, shown |-> shown,
     total |-> None, entered |-> None, df_final |-> <<>>, summary |-> <<>>,
     formatted_rows |-> <<>>, widths |-> <<>>]

NoOutcome == Outcome("none", "none", "", "")

\* Lines 132-135: what the two except clauses make of an exception raised
\* anywhere in the try block.
Except(exc, exc_msg) ==
    IF exc = "ValueError"
    THEN Outcome("non-numeric-amount", exc, exc_msg, "")
    ELSE Outcome("unexpected-error", exc, exc_msg, exc_msg)

\* Lines 84-130: the report of the sorted rows.
Success(rows, description, ach_amount_float, date) ==
    LET body == FormattedRows(rows, None)
        sheet == SheetRows(description, ach_amount_float, date, body)
    IN  [kind |-> "success", exc |-> "none", exc_msg |-> "", shown |-> "",
         total |-> None, entered |-> None,
         df_final |-> rows,
         summary |-> <<description, ach_amount_float, strftime(date)>>,
         formatted_rows |-> body,
         widths |-> [c \in 1..NumColumns |-> ColumnWidth(sheet, c)]]

\* Lines 56-130: after the amount check.
Report(file, matching, description, ach_amount_float, date) ==
    IF "Line Item Description" \notin file.columns
    THEN {Except("KeyError", "'Line Item Description'")}
    ELSE IF \E i \in 1..Len(matching) :
              parse_line_item(matching[i].row.description).exc # "none"
    THEN {Except("IndexError", "list index out of range")}
    ELSE IF ~(ProjectedColumns \subseteq file.columns)
    THEN {Except("KeyError", "not in index")}
    ELSE {Success(rows, description, ach_amount_float, date) :
            rows \in SortValues([i \in 1..Len(matching) |->
                                   ReconciledRow(matching[i])])}

\* A slip in line 37: the description is not tested.
MissingInputNoDescription(amount, description, file) ==
    amount = <<>> \/ IsNone(file)

\* Line 37: an empty text and no file are false; st.date_input always
\* returns a date, so "not ach_date" never holds.
MissingInput(amount, description, file) ==
    amount = <<>> \/ description = <<>> \/ IsNone(file)

\* Lines 37-135: the set of outcomes of one press of the button.
Handler(amount, description, date, file) ==
    IF MissingInput(amount, description, file)
    THEN {Outcome("missing-input", "none", "", "")}
    ELSE IF IsNone(Float(amount))
    THEN {Except("ValueError", "could not convert string to float")}
    ELSE IF file[1].raises # "none"
    THEN {Except(file[1].raises, "unreadable workbook")}
    ELSE IF "Payment Date" \notin file[1].columns
    THEN {Except("KeyError", "'Payment Date'")}
    ELSE LET ach_amount_float == Float(amount)[1]
             matching == MatchingRows(file[1].rows, 1, date)
         IN  IF matching = <<>>
             THEN {Outcome("no-matching-rows", "none", "", "")}
             ELSE IF "Extended Amount" \notin file[1].columns
             THEN {Except("KeyError", "'Extended Amount'")}
             ELSE IF ~AmountsAgree(SumExtended(matching), ach_amount_float)
             THEN {[Outcome("amount-mismatch", "none", "", "") EXCEPT
                      !.total = Some(SumExtended(matching)),
                      !.entered = Some(ach_amount_float)]}
             ELSE Report(file[1], matching, description, ach_amount_float, date)

(***************************************************************************)
(* The inputs the model draws.                                             *)
(***************************************************************************)
\* The most rows a workbook of the model holds.
MaxRows == 3

\* The most name tokens a generated line item description holds.
MaxTokens == 3

AmountTexts ==
    {<<>>, <<"a", "b", "c">>,
     <<"0", ".", "0", "0">>,
     <<"9", "9", "9", ".", "9", "9">>,
     <<"1", "0", "0", "0", ".", "0", "0">>,
     <<"1", "0", "0", "0", ".", "0", "0", "4">>,
     <<"1", "5", "0", "0", ".", "0", "0">>,
     <<"5", "0", "0", ".", "0", "0">>}

DescriptionTexts == {<<>>, <<"M", "a", "r", "c", "h", " ", "P", "a", "y", "r", "o", "l", "l">>}

DateA == <<2024, 3, 15>>
DateB == <<2024, 4, 1>>
AchDates == {DateA, DateB}

InvoiceRow(payment_date, description, extended) ==
    [payment_date |-> payment_date, description |-> description,
     extended |-> extended, quantity |-> Some(40000), unit_cost |-> Some(12500),
     invoice_amount |-> Some(1000000), due_date |-> <<2024, 4, 14>>,
     cai |-> <<"C", "A", "I", "-", "1">>, supplier |-> <<"E", "7">>]

RowWeek1 ==
    InvoiceRow(Some([date |-> DateA, time |-> 0]),
               Some(<<"A", "l", " ", "B", "o", " ", "(", "S", "1", ")", "[", "C", "]", ":", "2", "0", "2", "4", "-", "0", "1", "-", "0", "1", ":", "2", "0", "2", "4", "-", "0", "1", "-", "0", "7">>),
               Some(500000))
RowWeek2 ==
    InvoiceRow(Some([date |-> DateA, time |-> 34200]),
               Some(<<"C", "y", " ", "(", "S", "2", "2", ")", "[", "C", "]", ":", "2", "0", "2", "4", "-", "0", "1", "-", "0", "8", ":", "2", "0", "2", "4", "-", "0", "1", "-", "1", "4">>),
               Some(500004))
RowNoMatch ==
    InvoiceRow(Some([date |-> DateA, time |-> 0]),
               Some(<<"M", "i", "s", "c", " ", "f", "e", "e">>),
               None)
RowLongName ==
    InvoiceRow(Some([date |-> DateB, time |-> 0]),
               Some(<<"M", "a", "x", "i", "m", "i", "l", "i", "a", "n", "a", "-", "A", "l", "e", "x", "a", "n", "d", "r", "i", "n", "a", "-", "K", "o", "n", "s", "t", "a", "n", "t", "i", "n", "o", "p", "o", "l", "i", "t", "a", "n", " ", "D", "i", " ", "E", "c", "k", " ", "(", "S", "3", ")", "[", "C", "]", ":", "2", "0", "2", "3", "-", "1", "2", "-", "2", "5", ":", "2", "0", "2", "3", "-", "1", "2", "-", "3", "1">>),
               Some(1000000))
RowNoDate ==
    InvoiceRow(None,
               Some(<<"F", "o", " ", "(", "S", "4", ")", "[", "C", "]", ":", "2", "0", "2", "4", "-", "0", "1", "-", "0", "1", ":", "2", "0", "2", "4", "-", "0", "1", "-", "0", "7">>),
               Some(500000))
RowBlankName ==
    InvoiceRow(Some([date |-> DateA, time |-> 0]),
               Some(<<" ", " ", "(", "S", "5", ")", "[", "C", "]", ":", "2", "0", "2", "4", "-", "0", "1", "-", "0", "1", ":", "2", "0", "2", "4", "-", "0", "1", "-", "0", "7">>),
               Some(500000))

RowCatalogue ==
    {RowWeek1, RowWeek2, RowNoMatch, RowLongName, RowNoDate, RowBlankName}

Workbook(raises, columns, rows) ==
    [raises |-> raises, columns |-> columns, rows |-> rows]

\* Workbooks that read, with every required column.
Tables ==
    {Workbook("none", RequiredColumns, rows) :
       rows \in UNION {[1..n -> RowCatalogue] : n \in 0..MaxRows}}

\* Files that are no workbook (pd.read_excel raises ValueError for a file
\* whose format it cannot determine, BadZipFile for a damaged archive) and
\* workbooks that lack a column.
OtherFiles ==
    {Workbook("ValueError", {}, <<>>),
     Workbook("BadZipFile", {}, <<>>),
     Workbook("none", RequiredColumns \ {"Payment Date"}, <<RowWeek1, RowWeek1>>),
     Workbook("none", RequiredColumns \ {"Quantity"}, <<RowWeek1, RowWeek1>>)}

Files == Tables \cup OtherFiles

(***************************************************************************)
(* The state after the script's first run, and the user's actions.  Every  *)
(* change of a widget reruns the script with the button not pressed, which *)
(* clears the message and the report of the run before.                    *)
(***************************************************************************)
Init ==
    /\ ach_amount = <<>>
    /\ ach_description = <<>>
    /\ ach_date = DateA
    /\ uploaded_file = None
    /\ result = NoOutcome

EnterAmount ==
    /\ \E a \in AmountTexts : ach_amount' = a
    /\ result' = NoOutcome
    /\ UNCHANGED <<ach_description, ach_date, uploaded_file>>

EnterDescription ==
    /\ \E d \in DescriptionTexts : ach_description' = d
    /\ result' = NoOutcome
    /\ UNCHANGED <<ach_amount, ach_date, uploaded_file>>

EnterDate ==
    /\ \E d \in AchDates : ach_date' = d
    /\ result' = NoOutcome
    /\ UNCHANGED <<ach_amount, ach_description, uploaded_file>>

Upload ==
    /\ IsNone(uploaded_file)
    /\ \E f \in Files : uploaded_file' = Some(f)
    /\ result' = NoOutcome
    /\ UNCHANGED <<ach_amount, ach_description, ach_date>>

ClearFile ==
    /\ ~IsNone(uploaded_file)
    /\ uploaded_file' = None
    /\ result' = NoOutcome
    /\ UNCHANGED <<ach_amount, ach_description, ach_date>>

\* Line 36: the button "Generate Excel Output".
Generate ==
    /\ result' \in Handler(ach_amount, ach_description, ach_date, uploaded_file)
    /\ UNCHANGED <<ach_amount, ach_description, ach_date, uploaded_file>>

Next ==
    \/ EnterAmount
    \/ EnterDescription
    \/ EnterDate
    \/ Upload
    \/ ClearFile
    \/ Generate

Spec == Init /\ [][Next]_vars

(***************************************************************************)
(* Line item descriptions for parse_line_item, put together from a name    *)
(* (leading white space, tokens, separators), a candidate id, a marker and *)
(* two dates; and the specification that runs the handler on a workbook of *)
(* one row with such a description.                                        *)
(***************************************************************************)
Letters == <<"A", "B", "C", "D", "E", "F">>

\* The i-th name token: "Al", "Bl", "Cl", ...
Token(i) == <<Letters[i], "l">>

Leads == {<<>>, <<" ">>, <<"\t">>}

Separators == {<<" ">>, <<" ", " ">>, <<"\t">>, <<"\n">>}

\* A name: its leading white space and the separators between its tokens
\* (ntok tokens; none at all when ntok = 0).
NameShapes ==
    {[lead |-> l, ntok |-> 0, seps |-> <<>>] : l \in Leads}
    \cup {[lead |-> l, ntok |-> Len(ss) + 1, seps |-> ss] :
            l \in Leads,
            ss \in UNION {[1..n -> Separators] : n \in 0..(MaxTokens - 1)}}

RECURSIVE NameFrom(_, _)
NameFrom(shape, i) ==
    IF i > shape.ntok THEN <<>>
    ELSE Token(i)
         \o (IF i < shape.ntok THEN shape.seps[i] ELSE <<>>)
         \o NameFrom(shape, i + 1)

NameText(shape) == shape.lead \o NameFrom(shape, 1)

GoodIds == {<<"S", "1">>, <<"S", "2", "0", "4">>}
BadIds == {<<"S">>, <<"X", "9">>}

GoodMarker == <<"[", "C", "]">>
Markers == {GoodMarker, <<"[", "X", "]">>}

GoodDate1 == <<"2", "0", "2", "3", "-", "1", "2", "-", "2", "5">>
Date1s == {GoodDate1, <<"2", "0", "2", "3", "-", "1", "2", "-", "5">>}

\* Texts of the shape YYYY-MM-DD, calendar dates or not.
WeekTexts ==
    {Pad(y, 4) \o <<"-">> \o Pad(m, 2) \o <<"-">> \o Pad(d, 2) :
       y \in {2023, 2024, 2100}, m \in {0, 1, 2, 4, 12, 13},
       d \in {0, 1, 28, 29, 30, 31, 32}}

FewWeeks == {<<"2", "0", "2", "4", "-", "0", "1", "-", "0", "1">>, <<"2", "0", "2", "3", "-", "0", "2", "-", "2", "9">>}

Compose(name, id, marker, d1, d2) ==
    name \o <<" ", "(">> \o id \o <<")">> \o marker \o <<":">> \o d1 \o <<":">> \o d2

GeneratedDescriptions ==
    {Compose(NameText(sh), id, GoodMarker, GoodDate1, d2) :
       sh \in NameShapes, id \in GoodIds \cup BadIds, d2 \in FewWeeks}
    \cup {Compose(<<"A", "l", " ", "B", "l">>, <<"S", "1">>, mk, d1, d2) :
            mk \in Markers, d1 \in Date1s, d2 \in WeekTexts}
    \cup {Compose(<<"A", "l">>, <<"S", "1">>, GoodMarker, GoodDate1, d2) \o <<"7">> :
            d2 \in FewWeeks}

DescriptionCells ==
    {Some(d) : d \in GeneratedDescriptions} \cup {None, Some(<<>>), Some(<<"M", "i", "s", "c", " ", "f", "e", "e">>)}

InitParse ==
    /\ ach_amount = <<"1", "0", "0", "0", ".", "0", "0">>
    /\ ach_description = <<"M", "a", "r", "c", "h", " ", "P", "a", "y", "r", "o", "l", "l">>
    /\ ach_date = DateA
    /\ \E d \in DescriptionCells :
         uploaded_file =
           Some(Workbook("none", RequiredColumns,
                         <<InvoiceRow(Some([date |-> DateA, time |-> 0]), d,
                                      Some(1000000))>>))
    /\ result = NoOutcome

NextParse == Generate

ParseSpec == InitParse /\ [][NextParse]_vars

(***************************************************************************)
(* The claims.  What a claim speaks of is stated here from the inputs and  *)
(* the outcome of a run, not with the handler's own operators.             *)
(***************************************************************************)
\* A run has been made with the inputs of the state.
Ran == result.kind # "none"

InputMissing ==
    ach_amount = <<>> \/ ach_description = <<>> \/ uploaded_file = <<>>

\* The amount texts of the model that are numbers, and their values in mils.
EnteredIsNumeric ==
    ach_amount \in {<<"0", ".", "0", "0">>,
                    <<"5", "0", "0", ".", "0", "0">>,
                    <<"9", "9", "9", ".", "9", "9">>,
                    <<"1", "0", "0", "0", ".", "0", "0">>,
                    <<"1", "0", "0", "0", ".", "0", "0", "4">>,
                    <<"1", "5", "0", "0", ".", "0", "0">>}

EnteredMils ==
    CASE ach_amount = <<"0", ".", "0", "0">> -> 0
      [] ach_amount = <<"9", "9", "9", ".", "9", "9">> -> 999990
      [] ach_amount = <<"1", "0", "0", "0", ".", "0", "0">> -> 1000000
      [] ach_amount = <<"1", "5", "0", "0", ".", "0", "0">> -> 1500000
      [] ach_amount = <<"1", "0", "0", "0", ".", "0", "0", "4">> -> 1000004
      [] ach_amount = <<"5", "0", "0", ".", "0", "0">> -> 500000

\* The workbook reads and has every required column.
FileIsTable ==
    /\ uploaded_file # <<>>
    /\ uploaded_file[1].raises = "none"
    /\ uploaded_file[1].columns = RequiredColumns

FileRows == uploaded_file[1].rows

\* Row i of the workbook has the ACH date as its payment date.
DateMatches(i) ==
    /\ FileRows[i].payment_date # <<>>
    /\ FileRows[i].payment_date[1].date = ach_date

MatchingIndices == {i \in 1..Len(FileRows) : DateMatches(i)}

\* The sum of the extended amounts of the matching rows among the first n
\* rows, a missing amount counted as 0.
RECURSIVE MatchedSum(_)
MatchedSum(n) ==
    IF n = 0 THEN 0
    ELSE MatchedSum(n - 1)
         + (IF DateMatches(n) /\ FileRows[n].extended # <<>>
            THEN FileRows[n].extended[1] ELSE 0)

\* m mils rounded to cents: the cent amount less than half a cent away.
RoundedCents(m) ==
    CHOOSE c \in (m \div 10)..((m \div 10) + 1) : (10 * c - m) \in -4..4

SumAgrees ==
    RoundedCents(MatchedSum(Len(FileRows))) = RoundedCents(EnteredMils)

\* C1: with a numeric amount and at least one row of the ACH date, the run
\* succeeds exactly if the sum of the matching rows' extended amounts and
\* the entered amount agree when rounded to 2 decimals, and otherwise fails
\* with amount-mismatch, which carries both values.
C1_SucceedsIffAmountsAgree ==
    (Ran /\ ~InputMissing /\ EnteredIsNumeric /\ FileIsTable
         /\ MatchingIndices # {})
    => /\ (result.kind = "success") <=> SumAgrees
       /\ ~SumAgrees =>
            /\ result.kind = "amount-mismatch"
            /\ result.total = <<MatchedSum(Len(FileRows))>>
            /\ result.entered = <<EnteredMils>>

\* C1, apart from the rows whose parsing raises (C4): in every other run the
\* amount check alone decides between success and amount-mismatch.
C1_AgreesUnlessParseRaises ==
    result.exc # "IndexError" => C1_SucceedsIffAmountsAgree

C3_ExceptionsAreUnexpectedErrors ==
    (Ran /\ ~InputMissing /\ EnteredIsNumeric /\ result.exc # "none")
    => /\ result.kind = "unexpected-error"
       /\ result.shown = result.exc_msg

\* The rows of a successful run, in the order of the report.
Rows == result.df_final

AllNull(r) == r.first = <<>> /\ r.last = <<>> /\ r.id = <<>> /\ r.week = <<>>

AllSet(r) == r.first # <<>> /\ r.last # <<>> /\ r.id # <<>> /\ r.week # <<>>

\* C4: whatever the description of a row is, parsing it raises no error and
\* gives four fields that are all set or all missing; the run is not aborted.
C4_ParseNeverRaises ==
    Ran => /\ result.kind = "success"
           /\ \A i \in 1..Len(Rows) : AllNull(Rows[i]) \/ AllSet(Rows[i])

IsPrefix(p, t) == Len(p) <= Len(t) /\ SubSeq(t, 1, Len(p)) = p

\* Tokens i..n of a name, one space between two of them.
RECURSIVE TokensFrom(_, _)
TokensFrom(i, n) ==
    IF i > n THEN <<>>
    ELSE IF i = n THEN Token(i)
    ELSE Token(i) \o <<" ">> \o TokensFrom(i + 1, n)

\* The run on the one-row workbook recovered these four fields.
Recovered(first, last, id, week) ==
    /\ result.kind = "success"
    /\ Len(Rows) = 1
    /\ Rows[1].first = <<first>>
    /\ Rows[1].last = <<last>>
    /\ Rows[1].id = <<id>>
    /\ Rows[1].week = <<week>>

\* For every name shape in shapes: if the description of the one row is
\* "<name> (S<digits>)[C]:<date1>:<date2>" with that name, the fields are the
\* first token, the other tokens joined by single spaces, the id and date2.
RecoversNames(shapes) ==
    \A sh \in shapes :
      (sh.ntok >= 1 /\ FileRows[1].description # <<>>
         /\ IsPrefix(NameText(sh) \o <<" ", "(">>, FileRows[1].description[1]))
      => \A id \in GoodIds, d2 \in WeekTexts \cup FewWeeks :
           FileRows[1].description
              = <<Compose(NameText(sh), id, GoodMarker, GoodDate1, d2)>>
           => Recovered(Token(1), TokensFrom(2, sh.ntok), id, d2)

\* C5 as stated: the name tokens are separated by any white space.
C5_RecoversEveryName == Ran => RecoversNames(NameShapes)

SingleLine(sh) == \A i \in 1..Len(sh.seps) : sh.seps[i] # <<"\n">>

\* C5 as amended: the name holds no line break.
C5_RecoversSingleLineNames ==
    Ran => RecoversNames({sh \in NameShapes : SingleLine(sh)})

\* C5's case: three tokens, two spaces and a tab between them.
C5_Witness ==
    /\ Ran
    /\ FileRows[1].description
         = <<Compose(<<"A", "l", " ", " ", "B", "l", "\t", "C", "l">>, <<"S", "2", "0", "4">>, GoodMarker, GoodDate1,
                     <<"2", "0", "2", "4", "-", "0", "1", "-", "0", "1">>)>>
    /\ Recovered(<<"A", "l">>, <<"B", "l", " ", "C", "l">>, <<"S", "2", "0", "4">>,
                 <<"2", "0", "2", "4", "-", "0", "1", "-", "0", "1">>)

\* The day number of a date (days since a fixed day), by the civil-calendar
\* formula with March as the first month.
DayNumber(d) ==
    LET y == IF d[2] <= 2 THEN d[1] - 1 ELSE d[1]
        m == IF d[2] <= 2 THEN d[2] + 12 ELSE d[2]
    IN  365 * y + (y \div 4) - (y \div 100) + (y \div 400)
          + ((153 * (m - 3) + 2) \div 5) + d[3]

\* <<y, m, d>> is a day of the calendar: it comes before the first day of
\* the following month.
IsCalendarDate(d) ==
    /\ d[2] \in 1..12
    /\ d[3] >= 1
    /\ DayNumber(d) < DayNumber(IF d[2] = 12 THEN <<d[1] + 1, 1, 1>>
                                ELSE <<d[1], d[2] + 1, 1>>)

Body == result.formatted_rows

IsBlankRow(row) == \A c \in 1..Len(row) : row[c][1] = "s" /\ row[c][2] = <<>>

Blanks == {k \in 1..Len(Body) : IsBlankRow(Body[k])}

DataRows == SelectSeq(Body, LAMBDA row : ~IsBlankRow(row))

\* The vector week ending of a body row: its fourth cell.
WeekKey(row) == IF row[4][1] = "s" THEN <<row[4][2]>> ELSE <<>>

\* C6: the body holds one blank row before the first row of every week
\* ending group but the first and no other blank row: none first or last,
\* no two in a row, none inside a group (rows without a week ending form one
\* group).
C6_BlankRowsBetweenGroups ==
    result.kind = "success" =>
      /\ Body # <<>>
      /\ 1 \notin Blanks /\ Len(Body) \notin Blanks
      /\ \A k \in Blanks :
           /\ (k + 1) \notin Blanks
           /\ WeekKey(Body[k - 1]) # WeekKey(Body[k + 1])
      /\ \A k \in 1..(Len(Body) - 1) :
           (k \notin Blanks /\ (k + 1) \notin Blanks)
             => WeekKey(Body[k]) = WeekKey(Body[k + 1])
      /\ Cardinality(Blanks)
           = Cardinality({Rows[i].week : i \in 1..Len(Rows)}) - 1

\* C6's case: the weeks 2024-01-07, 2024-01-07, 2024-01-14 give one blank
\* row, the third of four body rows.
C6_Witness ==
    /\ result.kind = "success"
    /\ [i \in 1..Len(Rows) |-> Rows[i].week]
         = <<<<<<"2", "0", "2", "4", "-", "0", "1", "-", "0", "7">>>>,
             <<<<"2", "0", "2", "4", "-", "0", "1", "-", "0", "7">>>>,
             <<<<"2", "0", "2", "4", "-", "0", "1", "-", "1", "4">>>>>>
    /\ Len(Body) = 4
    /\ Blanks = {3}

\* A week ending text as a number that orders the days: YYYYMMDD.
WeekNumber(week) ==
    LET f == DateFields(week[1]) IN 10000 * f[1] + 100 * f[2] + f[3]

\* C7: the rows of a successful run are in ascending order of their week
\* ending, the rows without one after all the others, and the rows of one
\* week ending are next to each other.
C7_SortedNullsLast ==
    result.kind = "success" =>
      \A i, j \in 1..Len(Rows) :
        i < j =>
          /\ (Rows[i].week # <<>> /\ Rows[j].week # <<>>)
               => WeekNumber(Rows[i].week) <= WeekNumber(Rows[j].week)
          /\ Rows[i].week = <<>> => Rows[j].week = <<>>
          /\ Rows[i].week = Rows[j].week
               => \A k \in i..j : Rows[k].week = Rows[i].week

\* C7's case: the workbook lists a row without a week ending, then the later
\* week, then the earlier week; the report has them in the opposite order.
C7_Witness ==
    /\ result.kind = "success"
    /\ FileRows = <<RowNoMatch, RowWeek2, RowWeek1>>
    /\ [i \in 1..Len(Rows) |-> Rows[i].index] = <<3, 2, 1>>

\* The lengths of the values of column c: in the body, in the header, and
\* in the summary block above them, which fills the first two columns.
BodyLengths(c) == {CellLen(Body[k][c]) : k \in 1..Len(Body)}

HeaderLength(c) == Len(Header[c][2])

SummaryLengths(c) ==
    IF c = 1 THEN {Len(<<"A", "C", "H", " ", "S", "u", "m", "m", "a", "r", "y">>), Len(<<"A", "C", "H", " ", "D", "e", "s", "c", "r", "i", "p", "t", "i", "o", "n">>),
                   Len(<<"A", "C", "H", " ", "A", "m", "o", "u", "n", "t">>), Len(<<"A", "C", "H", " ", "D", "a", "t", "e">>)}
    ELSE IF c = 2 THEN {Len(ach_description), CellLen(<<"f", EnteredMils>>),
                        Len(<<"2", "0", "2", "4", "-", "0", "3", "-", "1", "5">>)}
    ELSE {}

\* C8 as stated: the width is the longest value of the header and the body,
\* capped at 40, plus some small fixed padding p.
C8_WidthIsCappedLongestPlusPadding ==
    result.kind = "success" =>
      \E p \in 0..10 :
        \A c \in 1..NumColumns :
          result.widths[c]
            = Min2(Max(BodyLengths(c) \cup {HeaderLength(c)}), MaxWidth) + p

\* C8 as amended: the width is the longest value of the whole column, the
\* summary block included, plus the padding of 2, and the sum is capped at
\* 40.
C8_WidthIsLongestPlusPaddingCapped ==
    result.kind = "success" =>
      \A c \in 1..NumColumns :
        LET longest ==
              Max(BodyLengths(c) \cup {HeaderLength(c)} \cup SummaryLengths(c))
        IN  IF longest + Padding <= MaxWidth
            THEN result.widths[c] = longest + Padding
            ELSE result.widths[c] = MaxWidth

\* C8's case: a first name of more than 40 characters; the column is 40 wide.
C8_Witness ==
    /\ result.kind = "success"
    /\ \E k \in 1..Len(Body) : CellLen(Body[k][1]) > MaxWidth
    /\ result.widths[1] = MaxWidth

\* The extended amount of a body row: its eighth cell, NaN counted as 0.
BodyAmount(row) == IF row[8][1] = "f" THEN row[8][2] ELSE 0

RECURSIVE BodySum(_)
BodySum(n) == IF n = 0 THEN 0 ELSE BodySum(n - 1) + BodyAmount(DataRows[n])

\* C10: the rows that are not blank are, one for one, the rows of the
\* workbook whose payment date is the ACH date, with the values of those
\* rows, and their extended amounts sum to the entered amount (both rounded
\* to 2 decimals).
C10_BodyIsTheMatchingRows ==
    result.kind = "success" =>
      /\ Len(Rows) = Cardinality(MatchingIndices)
      /\ {Rows[i].index : i \in 1..Len(Rows)} = MatchingIndices
      /\ Len(DataRows) = Len(Rows)
      /\ \A i \in 1..Len(Rows) :
           LET src == FileRows[Rows[i].index]
           IN  /\ Rows[i].extended = src.extended
               /\ Rows[i].hours = src.quantity
               /\ Rows[i].esg = src.supplier
               /\ BodyAmount(DataRows[i])
                    = (IF src.extended = <<>> THEN 0 ELSE src.extended[1])
               /\ DataRows[i][12] = <<"s", src.supplier>>
      /\ RoundedCents(BodySum(Len(DataRows))) = RoundedCents(EnteredMils)

\* C10's case: a workbook with a row without payment date and a matching row
\* whose payment date has a time of day.
C10_Witness ==
    /\ result.kind = "success"
    /\ Len(Rows) = 2
    /\ Len(FileRows) = 3
    /\ \E i \in 1..3 : FileRows[i].payment_date = <<>>
    /\ \E i \in MatchingIndices : FileRows[i].payment_date[1].time # 0

====
